---- MODULE Spec2Model ----
(***************************************************************************)
(* LinguaLink backend: the translation cache, the sliding-window rate      *)
(* limiter, the performance metrics and TranslationService.translate_text  *)
(* that sequences them around the NLLB compute call.                       *)
(*                                                                         *)
(* Strings are sequences of tokens (<<" ", "hi">> is " hi"), so that       *)
(* strip() and the f-string of the cache key are computed, not assumed.    *)
(* Time is one integer clock `now` read by datetime.utcnow() and           *)
(* time.time(); confidences are in hundredths (0.95 is 95).                *)
(***************************************************************************)
EXTENDS Integers, Sequences, FiniteSets, TLC

\* ---------------------------------------------------------------- bounds
\* The clock stops at MaxTime.
MaxTime == 2
\* CACHE_TTL (config.py:37 sets 3600 s), in model time units.
ttl == 2
\* The largest CACHE_MAX_SIZE the model configures (config.py:38 sets 1000).
MaxCap == 2
\* The number of cache operations of the cache-only specification.
MaxOps == 3
\* RATE_LIMIT_PER_MINUTE (config.py:50 sets 100).
calls_per_minute == 2
\* RateLimitMiddleware.window_size (security.py:26 sets 60 s), in model time
\* units.
window_size == 1
\* The number of admission checks of the limiter-only specification.
MaxChecks == 5
\* The number of translate_text calls of the service specification.
NumReqs == 2
\* The largest response time of the metrics-only specification.
MaxLatency == 2
\* The number of outcomes the metrics-only specification records.
MaxRecords == 4
\* The number of requests the middleware has passed on and not yet answered.
MaxInflight == 3

\* The CACHE_MAX_SIZE of the cache that is filled to capacity: the smallest
\* at which _evict_lru removes more than one entry.
EvictCap == 10

\* ---------------------------------------------------------------- strings
SP == " "

RECURSIVE lstrip(_)
lstrip(s) == IF s # <<>> /\ Head(s) = SP THEN lstrip(Tail(s)) ELSE s

RECURSIVE rstrip(_)
rstrip(s) ==
    IF s # <<>> /\ s[Len(s)] = SP THEN rstrip(SubSeq(s, 1, Len(s) - 1)) ELSE s

\* str.strip()
strip(s) == rstrip(lstrip(s))

Max(a, b) == IF a >= b THEN a ELSE b

\* Python's None, as a cache lookup result.
None == [none |-> TRUE]

VARIABLES
    now,             \* the wall clock
    max_size,        \* TranslationCache.max_size
    cache,           \* TranslationCache.cache: key -> CacheEntry
    access_times,    \* TranslationCache.access_times, in dict (insertion) order
    hit_count,       \* TranslationCache.hit_count
    miss_count,      \* TranslationCache.miss_count
    nops,            \* history: number of cache operations performed
    lastOp,          \* history: the last cache operation and what it returned
    prevOp,          \* history: the cache operation before lastOp
    opLog,           \* history: every cache operation, in order
    client_requests, \* RateLimitMiddleware.client_requests: id -> deque
    checkLog,        \* history: per client id, its admission checks in order
    inflight,        \* per path: the requests suspended in `await call_next`
    dispatched,      \* history: the last request dispatch took, and its answer
    metrics,         \* TranslationService.metrics (PerformanceMetrics)
    latencies,       \* history: the response times folded into the mean
    pc,              \* per translate_text call: where it stands
    req,             \* per call: the arguments it was called with
    loc,             \* per call: its local variables
    out              \* per call: what it returned or raised, and history

cacheVars == <<max_size, cache, access_times, hit_count, miss_count>>
opVars == <<nops, lastOp, prevOp, opLog>>
limiterVars == <<client_requests, checkLog, inflight, dispatched>>
metricsVars == <<metrics, latencies>>
callVars == <<pc, req, loc, out>>
svcVars == <<metricsVars, callVars>>
vars == <<now, cacheVars, opVars, limiterVars, svcVars>>

\* ---------------------------------------------------------------- cache
\* CacheEntry(translatedText=..., timestamp=..., translator="nllb-200",
\* confidence=...); hitCount defaults to 1.
CacheEntry(text, ts, conf) ==
    [translatedText |-> text, timestamp |-> ts, translator |-> "nllb-200",
     confidence |-> conf, hitCount |-> 1]

\* hashlib.md5(...).hexdigest(): a digest is taken to identify its content.
md5(content) == content

\* f"{text}|{source_lang}|{target_lang}", hashed.
generate_key(text, source_lang, target_lang) ==
    md5(text \o <<"|">> \o source_lang \o <<"|">> \o target_lang)

\* Variant: an entry exactly ttl old still counts as valid.
IsFreshInclusive(entry) == now - entry.timestamp <= ttl
\* datetime.utcnow() - entry.timestamp < timedelta(seconds=self.ttl)
IsFresh(entry) == now - entry.timestamp < ttl

\* `key in self.cache` and the entry is still valid: get's hit branch.
GetHits(key) == key \in DOMAIN cache /\ IsFresh(cache[key])

\* d[key] = t on an insertion-ordered dict: an existing key keeps its place.
SetTime(at, key, t) ==
    IF \E i \in 1..Len(at) : at[i].key = key
    THEN [i \in 1..Len(at) |->
            IF at[i].key = key THEN [key |-> key, time |-> t] ELSE at[i]]
    ELSE Append(at, [key |-> key, time |-> t])

\* del d[key] for every key of K.
DelTimes(at, K) == SelectSeq(at, LAMBDA e : e.key \notin K)
DelKeys(c, K) == [k \in DOMAIN c \ K |-> c[k]]

\* Variant: storing under one key drops the entries of all the others.
PutAlone(c, key, entry) == [k \in {key} |-> entry]
\* self.cache[key] = entry
Put(c, key, entry) ==
    [k \in DOMAIN c \cup {key} |-> IF k = key THEN entry ELSE c[k]]

\* Variant: a hit restarts the entry's age as well.
HitEntryRenewed(entry) ==
    [entry EXCEPT !.hitCount = @ + 1, !.timestamp = now]
\* Variant: a hit that does not count itself on the entry.
HitEntryNoCount(entry) == entry
\* entry.hitCount += 1
HitEntry(entry) == [entry EXCEPT !.hitCount = @ + 1]

\* What TranslationCache.get returns for key.
GetResult(key) == IF GetHits(key) THEN HitEntry(cache[key]) ELSE None

\* Variant: half of the entries are removed.
num_to_remove_half(size) == Max(1, size \div 2)
\* max(1, len(self.cache) // 5)
num_to_remove(size) == Max(1, size \div 5)

\* sorted(self.access_times.items(), key=lambda x: x[1]) is stable: item j
\* comes before item i when it is older, or as old and earlier in the dict.
SortsBefore(at, j, i) ==
    at[j].time < at[i].time \/ (at[j].time = at[i].time /\ j < i)

SortedIndex(at, i) == Cardinality({j \in 1..Len(at) : SortsBefore(at, j, i)})

\* The keys of sorted_keys[:n].
LruKeys(at, n) == {at[i].key : i \in {j \in 1..Len(at) : SortedIndex(at, j) < n}}

\* The keys _evict_lru removes.
EvictLru ==
    IF access_times = <<>> THEN {}
    ELSE LruKeys(access_times, num_to_remove(Cardinality(DOMAIN cache)))

\* Variant: the capacity test counts the entries that are still valid only.
EvictedCountingValid ==
    IF Cardinality({k \in DOMAIN cache : IsFresh(cache[k])}) >= max_size
    THEN EvictLru ELSE {}
\* The keys set() evicts before it inserts.
Evicted == IF Cardinality(DOMAIN cache) >= max_size THEN EvictLru ELSE {}

OpRecord(op, key, entry, result, evicted) ==
    [op |-> op, key |-> key, entry |-> entry, result |-> result,
     evicted |-> evicted, at |-> now, size |-> Cardinality(DOMAIN cache'),
     hit |-> hit_count', miss |-> miss_count']

NoOp ==
    [op |-> "none", key |-> <<>>, entry |-> None, result |-> None,
     evicted |-> {}, at |-> 0, size |-> 0, hit |-> 0, miss |-> 0]

\* TranslationCache.get(text, source_lang, target_lang)
cache_get(text, source_lang, target_lang) ==
    LET key == generate_key(text, source_lang, target_lang) IN
    /\ IF GetHits(key)
       THEN /\ access_times' = SetTime(access_times, key, now)
            /\ cache' = [cache EXCEPT ![key] = HitEntry(@)]
            /\ hit_count' = hit_count + 1
            /\ miss_count' = miss_count
       ELSE /\ cache' = DelKeys(cache, {key})
            /\ access_times' =
                 IF key \in DOMAIN cache THEN DelTimes(access_times, {key})
                 ELSE access_times
            /\ miss_count' = miss_count + 1
            /\ hit_count' = hit_count
    /\ max_size' = max_size
    /\ nops' = nops + 1
    /\ prevOp' = lastOp
    /\ lastOp' = OpRecord("get", key, None, GetResult(key), {})
    /\ opLog' = Append(opLog, lastOp')

\* Variant: a set of a key that is present overwrites it and evicts nothing.
cache_set_in_place(text, source_lang, target_lang, entry) ==
    LET key == generate_key(text, source_lang, target_lang)
        evicted == IF key \in DOMAIN cache THEN {} ELSE Evicted
    IN  /\ cache' = Put(DelKeys(cache, evicted), key, entry)
        /\ access_times' = SetTime(DelTimes(access_times, evicted), key, now)
        /\ UNCHANGED <<max_size, hit_count, miss_count>>
        /\ nops' = nops + 1
        /\ prevOp' = lastOp
        /\ lastOp' = OpRecord("set", key, entry, None, evicted)
        /\ opLog' = Append(opLog, lastOp')
\* TranslationCache.set(text, source_lang, target_lang, entry)
cache_set(text, source_lang, target_lang, entry) ==
    LET key == generate_key(text, source_lang, target_lang) IN
    /\ cache' = Put(DelKeys(cache, Evicted), key, entry)
    /\ access_times' = SetTime(DelTimes(access_times, Evicted), key, now)
    /\ UNCHANGED <<max_size, hit_count, miss_count>>
    /\ nops' = nops + 1
    /\ prevOp' = lastOp
    /\ lastOp' = OpRecord("set", key, entry, None, Evicted)
    /\ opLog' = Append(opLog, lastOp')

\* TranslationCache.get_stats().totalEntries
totalEntries == Cardinality(DOMAIN cache)

\* ---------------------------------------------------------------- limiter
\* Variant: a check starts from an empty history, whatever was recorded.
RequestsForgotten(client_id) == <<>>
\* self.client_requests[client_id] on a defaultdict(deque)
Requests(client_id) ==
    IF client_id \in DOMAIN client_requests THEN client_requests[client_id]
    ELSE <<>>

\* Variant: a timestamp exactly window_size old is pruned too.
IsOldInclusive(t) == t <= now - window_size
\* requests[0] < window_start, with window_start = now - self.window_size
IsOld(t) == t < now - window_size

\* Variant: nothing is pruned.
prune_nothing(requests) == requests
\* while requests and requests[0] < window_start: requests.popleft()
RECURSIVE prune(_)
prune(requests) ==
    IF requests # <<>> /\ IsOld(Head(requests)) THEN prune(Tail(requests))
    ELSE requests

\* Variant: no request is ever over the limit.
IsLimitedNever(requests) == FALSE
\* Variant: the limit is exceeded only above calls_per_minute.
IsLimitedOffByOne(requests) == Len(requests) > calls_per_minute
\* len(requests) >= self.calls_per_minute
IsLimited(requests) == Len(requests) >= calls_per_minute

\* Variant: a rejected request is recorded in the window as well.
is_rate_limited_records_all(client_id) ==
    LET before == Requests(client_id)
        pruned == prune(before)
        after == Append(pruned, now)
        log == IF client_id \in DOMAIN checkLog THEN checkLog[client_id]
               ELSE <<>>
    IN  /\ client_requests' = Put(client_requests, client_id, after)
        /\ checkLog' =
              Put(checkLog, client_id,
                  Append(log, [at |-> now, limited |-> IsLimited(pruned),
                               before |-> before, after |-> after]))
\* RateLimitMiddleware._is_rate_limited(client_id)
is_rate_limited(client_id) ==
    LET before == Requests(client_id)
        pruned == prune(before)
        after == IF IsLimited(pruned) THEN pruned ELSE Append(pruned, now)
        log == IF client_id \in DOMAIN checkLog THEN checkLog[client_id]
               ELSE <<>>
    IN  /\ client_requests' = Put(client_requests, client_id, after)
        /\ checkLog' =
              Put(checkLog, client_id,
                  Append(log, [at |-> now, limited |-> IsLimited(pruned),
                               before |-> before, after |-> after]))

\* ---------------------------------------------------------------- config
\* Settings.ENABLE_RATE_LIMITING
ENABLE_RATE_LIMITING == TRUE

\* Variant: no path is let through unchecked.
ExemptPathsNone == {}
\* The paths dispatch lets through unchecked.
ExemptPaths == {"/health", "/", "/docs", "/redoc"}

\* The paths of the requests the model sends.
Paths == {"/translate", "/health"}

\* self.window_size = 60, in seconds; window_size is the same window in the
\* model's time unit.
WINDOW_SIZE_SECONDS == 60

\* Variant: the client is told to come back after two windows.
RETRY_AFTER_TWICE == 60 + 60
\* "retry_after": 60
RETRY_AFTER == 60

\* request.client is None
NoPeer == <<"None">>

\* The senders of the requests: the X-Forwarded-For and User-Agent headers
\* (<<>> when the header is absent) and the peer address request.client.host.
\* The first two are one client, once behind a proxy and once directly; the
\* third is another client behind the same peer as the second.
HttpClients ==
    {[forwarded_for |-> <<"10.0.0.1", ",", SP, "10.0.0.9">>,
      client |-> <<"10.0.0.7">>, user_agent |-> <<"curl">>],
     [forwarded_for |-> <<>>,
      client |-> <<"10.0.0.1">>, user_agent |-> <<"curl">>],
     [forwarded_for |-> <<SP, "10.0.0.2", SP, ",", "10.0.0.1">>,
      client |-> <<"10.0.0.1">>, user_agent |-> <<"curl">>]}

\* s.split(",")[0]
RECURSIVE first_field(_)
first_field(s) ==
    IF s = <<>> \/ Head(s) = "," THEN <<>>
    ELSE <<Head(s)>> \o first_field(Tail(s))

\* Variant: the peer address is used whatever the headers say.
client_ip_of_peer(request) ==
    IF request.client # NoPeer THEN request.client ELSE <<"unknown">>
\* RateLimitMiddleware._get_client_id: the address the client is known by.
client_ip(request) ==
    IF request.forwarded_for # <<>>
    THEN strip(first_field(request.forwarded_for))
    ELSE IF request.client # NoPeer THEN request.client ELSE <<"unknown">>

\* RateLimitMiddleware._get_client_id(request)
get_client_id(request) ==
    md5(client_ip(request) \o <<":">> \o request.user_agent)

\* No request has been dispatched yet.
NoDispatch ==
    [request |-> None, path |-> "", client_id |-> None, response |-> None]

\* JSONResponse(status_code=429, content={...}, headers={"Retry-After": "60"})
TooManyRequests ==
    [status_code |-> 429,
     content |-> [error |-> "Rate limit exceeded",
                  message |-> <<"Maximum ", calls_per_minute,
                                " requests per minute allowed">>,
                  retry_after |-> RETRY_AFTER],
     headers |-> [Retry_After |-> "60"]]

\* Variant: caching is switched off.
CachingDisabled == FALSE
\* Settings.ENABLE_CACHING
ENABLE_CACHING == TRUE

\* NLLB_LANGUAGE_MAPPING.get(iso_code, iso_code), for the codes the model uses.
get_nllb_language_code(iso_code) ==
    IF iso_code = <<"en">> THEN <<"eng_Latn">>
    ELSE IF iso_code = <<"es">> THEN <<"spa_Latn">>
    ELSE iso_code

\* reverse_mapping.get(nllb_code, nllb_code)
get_iso_language_code(nllb_code) ==
    IF nllb_code = <<"eng_Latn">> THEN <<"en">>
    ELSE IF nllb_code = <<"spa_Latn">> THEN <<"es">>
    ELSE nllb_code

\* ---------------------------------------------------------------- metrics
RECURSIVE GCD(_, _)
GCD(a, b) == IF b = 0 THEN a ELSE GCD(b, a % b)

\* The number n / d, d > 0, in lowest terms.
Ratio(n, d) == LET g == GCD(n, d) IN [num |-> n \div g, den |-> d \div g]

\* PerformanceMetrics(): the counters start at 0, the mean and the hit rate
\* at 0.0, memoryUsage at None, lastUpdated at the time of construction.
PerformanceMetrics ==
    [totalRequests |-> 0, successfulTranslations |-> 0,
     failedTranslations |-> 0, averageResponseTime |-> Ratio(0, 1),
     cacheHitRate |-> Ratio(0, 1), modelUsage |-> <<>>,
     memoryUsage |-> None, lastUpdated |-> 0]

\* Variant: the request is not counted in the total.
IncTotalMissing(m) == m
\* self.metrics.totalRequests += 1
IncTotal(m) == [m EXCEPT !.totalRequests = @ + 1]

\* self.metrics.successfulTranslations += 1
IncSuccessful(m) == [m EXCEPT !.successfulTranslations = @ + 1]

\* Variant: the failure is not counted.
IncFailedMissing(m) == m
\* Variant: a failure also restarts the mean.
IncFailedResetsMean(m) ==
    [m EXCEPT !.failedTranslations = @ + 1, !.averageResponseTime = Ratio(0, 1)]
\* self.metrics.failedTranslations += 1
IncFailed(m) == [m EXCEPT !.failedTranslations = @ + 1]

\* Variant: the new response time weighs as much as all the earlier ones.
update_average_by_halves(m, response_time) ==
    LET avg == m.averageResponseTime
    IN  [m EXCEPT !.averageResponseTime =
            IF m.successfulTranslations = 1 THEN Ratio(response_time, 1)
            ELSE Ratio(avg.num + response_time * avg.den, avg.den * 2)]
\* TranslationService._update_average_response_time(response_time)
update_average_response_time(m, response_time) ==
    LET total_successful == m.successfulTranslations
        avg == m.averageResponseTime
    IN  [m EXCEPT !.averageResponseTime =
            IF total_successful = 1 THEN Ratio(response_time, 1)
            ELSE Ratio(avg.num * (total_successful - 1) + response_time * avg.den,
                       avg.den * total_successful)]

\* ---------------------------------------------------------------- service
Reqs == 1..NumReqs

\* A falsy source_language: None, or "".
NoSource == <<>>

NoArgs == [text |-> <<>>, target_language |-> <<>>, source_language |-> NoSource]

NoLocals ==
    [start_time |-> 0, text |-> <<>>, source_language |-> <<>>,
     source_nllb |-> <<>>, target_nllb |-> <<>>, translated_text |-> <<>>,
     processing_time |-> 0, metrics0 |-> PerformanceMetrics,
     cache0 |-> <<>>]

NoOutcome ==
    [kind |-> "pending", result |-> None, raised |-> "", calls |-> 0,
     key |-> <<>>, lookupAt |-> 0, stored |-> None, evicted |-> {}]

\* Variant: no result says that it came from the cache.
TranslationResultFresh(translated, text, source, target, cached, time, conf) ==
    [translatedText |-> translated, originalText |-> text,
     sourceLanguage |-> source, targetLanguage |-> target,
     translator |-> "nllb-200", cached |-> FALSE, processingTime |-> time,
     confidence |-> conf]
TranslationResult(translated, text, source, target, cached, time, conf) ==
    [translatedText |-> translated, originalText |-> text,
     sourceLanguage |-> source, targetLanguage |-> target,
     translator |-> "nllb-200", cached |-> cached, processingTime |-> time,
     confidence |-> conf]

\* Variant: only the empty string is rejected, blanks pass.
IsEmptyNoStrip(text) == text = <<>>
\* not text or not text.strip()
IsEmpty(text) == text = <<>> \/ strip(text) = <<>>

\* Variant: the text is used as it was given.
normalizedNot(text) == text
\* text = text.strip(): the text the cache and the model are given.
normalized(text) == strip(text)

\* Variant: the language detected is Spanish.
detect_spanish(text) == <<"spa_Latn">>
\* _detect_language(text): "eng_Latn", whatever the text.
detect_language(text) == <<"eng_Latn">>

\* Variant: the same-language branch is never taken.
SameLanguageNever(source_language, target_language) == FALSE
\* source_language == target_language
SameLanguage(source_language, target_language) ==
    source_language = target_language

\* Variant: the entry caches the original text, not the translation.
StoredEntryOfOriginal(text, translated_text) == CacheEntry(text, now, 95)
\* The CacheEntry translate_text stores for a fresh translation of text.
ComputedEntry(text, translated_text) == CacheEntry(translated_text, now, 95)

\* translate_text has no suspension point: the coroutines it awaits
\* (_detect_language, _perform_translation) never yield to the event loop, so
\* one call runs to its end before the next starts.
EventLoopFree(r) ==
    /\ \A q \in Reqs \ {r} : pc[q] \in {"idle", "done"}
    /\ \A q \in Reqs : q < r => pc[q] = "done"

\* The cache state and its history, as one value.
CacheState == <<cache, access_times, hit_count, miss_count, nops>>

\* translate_text, from its entry to the end of language resolution.
Call(r, text, target_language, source_language) ==
    /\ pc[r] = "idle"
    /\ EventLoopFree(r)
    /\ req' = [req EXCEPT ![r] =
                 [text |-> text, target_language |-> target_language,
                  source_language |-> source_language]]
    /\ IF IsEmpty(text)
       THEN /\ loc' = [loc EXCEPT ![r] =
                         [@ EXCEPT !.start_time = now, !.text = text,
                                   !.metrics0 = metrics,
                                   !.cache0 = CacheState]]
            /\ out' = [out EXCEPT ![r].raised = "ValueError"]
            /\ pc' = [pc EXCEPT ![r] = "except"]
       ELSE LET target_nllb == get_nllb_language_code(target_language)
                given == IF source_language # NoSource
                         THEN get_nllb_language_code(source_language)
                         ELSE NoSource
                source_nllb == IF given = NoSource
                               THEN detect_language(strip(text)) ELSE given
                source == IF given = NoSource
                          THEN get_iso_language_code(source_nllb)
                          ELSE source_language
            IN  /\ loc' = [loc EXCEPT ![r] =
                             [@ EXCEPT !.start_time = now,
                                       !.text = normalized(text),
                                       !.source_language = source,
                                       !.source_nllb = source_nllb,
                                       !.target_nllb = target_nllb,
                                       !.metrics0 = metrics,
                                       !.cache0 = CacheState]]
                /\ out' = out
                /\ pc' = [pc EXCEPT ![r] = "lookup"]
    /\ UNCHANGED <<now, cacheVars, opVars, limiterVars, metricsVars>>

\* "Check cache first": a hit returns the cached result.
CacheLookup(r) ==
    /\ pc[r] = "lookup"
    /\ LET l == loc[r]
           target == req[r].target_language
           key == generate_key(l.text, l.source_language, target)
           cached_result == GetResult(key)
       IN  IF ENABLE_CACHING
           THEN /\ cache_get(l.text, l.source_language, target)
                /\ IF cached_result # None
                   THEN /\ out' = [out EXCEPT ![r] =
                                [@ EXCEPT !.kind = "hit", !.key = key,
                                   !.lookupAt = now,
                                   !.result = TranslationResult(
                                       cached_result.translatedText, l.text,
                                       l.source_language, target, TRUE,
                                       now - l.start_time,
                                       cached_result.confidence)]]
                        /\ pc' = [pc EXCEPT ![r] = "done"]
                   ELSE /\ out' = [out EXCEPT ![r] =
                                [@ EXCEPT !.key = key, !.lookupAt = now]]
                        /\ pc' = [pc EXCEPT ![r] =
                                IF SameLanguage(l.source_language, target)
                                THEN "same" ELSE "translate"]
           ELSE /\ UNCHANGED <<cacheVars, opVars>>
                /\ out' = [out EXCEPT ![r].key = key]
                /\ pc' = [pc EXCEPT ![r] =
                        IF SameLanguage(l.source_language, target)
                        THEN "same" ELSE "translate"]
    /\ UNCHANGED <<now, limiterVars, metricsVars, req, loc>>

\* Variant: the same-language shortcut counts its request in the total.
SameLanguageShortcutCounted(r) ==
    /\ pc[r] = "same"
    /\ LET l == loc[r]
           target == req[r].target_language
           cache_entry == CacheEntry(l.text, now, 100)
       IN  /\ cache_set(l.text, l.source_language, target, cache_entry)
           /\ loc' = [loc EXCEPT ![r].processing_time = now - l.start_time]
           /\ out' = [out EXCEPT ![r] =
                   [@ EXCEPT !.kind = "same", !.stored = cache_entry,
                      !.evicted = Evicted,
                      !.result = TranslationResult(
                          l.text, l.text, l.source_language, target, FALSE,
                          now - l.start_time, 100)]]
    /\ metrics' = IncTotal(metrics)
    /\ pc' = [pc EXCEPT ![r] = "done"]
    /\ UNCHANGED <<now, limiterVars, latencies, req>>
\* "Skip translation if source and target are the same."
SameLanguageShortcut(r) ==
    /\ pc[r] = "same"
    /\ LET l == loc[r]
           target == req[r].target_language
           cache_entry == CacheEntry(l.text, now, 100)
       IN  /\ cache_set(l.text, l.source_language, target, cache_entry)
           /\ loc' = [loc EXCEPT ![r].processing_time = now - l.start_time]
           /\ out' = [out EXCEPT ![r] =
                   [@ EXCEPT !.kind = "same", !.stored = cache_entry,
                      !.evicted = Evicted,
                      !.result = TranslationResult(
                          l.text, l.text, l.source_language, target, FALSE,
                          now - l.start_time, 100)]]
    /\ pc' = [pc EXCEPT ![r] = "done"]
    /\ UNCHANGED <<now, limiterVars, metricsVars, req>>

\* What the model may generate, before _perform_translation strips it.
ModelOutputs == {<<"hola">>, <<"ola", SP>>}

\* _perform_translation returns the stripped translation.
TranslateReturns(r) ==
    /\ pc[r] = "translate"
    /\ \E generated \in ModelOutputs :
         loc' = [loc EXCEPT ![r].translated_text = strip(generated)]
    /\ out' = [out EXCEPT ![r].calls = @ + 1]
    /\ pc' = [pc EXCEPT ![r] = "store"]
    /\ UNCHANGED <<now, cacheVars, opVars, limiterVars, metricsVars, req>>

\* _perform_translation logs the model's error and re-raises it.
TranslateRaises(r) ==
    /\ pc[r] = "translate"
    /\ out' = [out EXCEPT ![r] =
            [@ EXCEPT !.calls = @ + 1, !.raised = "ComputeError"]]
    /\ pc' = [pc EXCEPT ![r] = "except"]
    /\ UNCHANGED <<now, cacheVars, opVars, limiterVars, metricsVars, req, loc>>

\* The result is built and cached.
Store(r) ==
    /\ pc[r] = "store"
    /\ LET l == loc[r]
           target == req[r].target_language
           cache_entry == ComputedEntry(l.text, l.translated_text)
       IN  /\ IF ENABLE_CACHING
              THEN /\ cache_set(l.text, l.source_language, target, cache_entry)
                   /\ out' = [out EXCEPT ![r] =
                           [@ EXCEPT !.stored = cache_entry,
                              !.evicted = Evicted,
                              !.result = TranslationResult(
                                  l.translated_text, l.text, l.source_language,
                                  target, FALSE, now - l.start_time, 95)]]
              ELSE /\ UNCHANGED <<cacheVars, opVars>>
                   /\ out' = [out EXCEPT ![r].result = TranslationResult(
                                  l.translated_text, l.text, l.source_language,
                                  target, FALSE, now - l.start_time, 95)]
           /\ loc' = [loc EXCEPT ![r].processing_time = now - l.start_time]
    /\ pc' = [pc EXCEPT ![r] = "metrics"]
    /\ UNCHANGED <<now, limiterVars, metricsVars, req>>

\* "Update metrics": the total.
RecordTotal(r) ==
    /\ pc[r] = "metrics"
    /\ metrics' = IncTotal(metrics)
    /\ pc' = [pc EXCEPT ![r] = "metrics2"]
    /\ UNCHANGED <<now, cacheVars, opVars, limiterVars, latencies, req, loc, out>>

\* "Update metrics": the successes and the mean; the result is returned.
RecordSuccess(r) ==
    /\ pc[r] = "metrics2"
    /\ metrics' = update_average_response_time(IncSuccessful(metrics),
                                               loc[r].processing_time)
    /\ latencies' = Append(latencies, loc[r].processing_time)
    /\ out' = [out EXCEPT ![r].kind = "computed"]
    /\ pc' = [pc EXCEPT ![r] = "done"]
    /\ UNCHANGED <<now, cacheVars, opVars, limiterVars, req, loc>>

\* except Exception: the total.
ExceptTotal(r) ==
    /\ pc[r] = "except"
    /\ metrics' = IncTotal(metrics)
    /\ loc' = [loc EXCEPT ![r].processing_time = now - loc[r].start_time]
    /\ pc' = [pc EXCEPT ![r] = "except2"]
    /\ UNCHANGED <<now, cacheVars, opVars, limiterVars, latencies, req, out>>

\* Variant: the exception is not raised again and the call never returns.
ExceptFailedHangs(r) ==
    /\ pc[r] = "except2"
    /\ metrics' = IncFailed(metrics)
    /\ out' = [out EXCEPT ![r].kind = "error"]
    /\ pc' = [pc EXCEPT ![r] = "hung"]
    /\ UNCHANGED <<now, cacheVars, opVars, limiterVars, latencies, req, loc>>
\* except Exception: the failures; the exception is raised again.
ExceptFailed(r) ==
    /\ pc[r] = "except2"
    /\ metrics' = IncFailed(metrics)
    /\ out' = [out EXCEPT ![r].kind = "error"]
    /\ pc' = [pc EXCEPT ![r] = "done"]
    /\ UNCHANGED <<now, cacheVars, opVars, limiterVars, latencies, req, loc>>

\* ------------------------------------------- the /api/translate route
\* Settings.DEBUG
DEBUG == FALSE

\* str(e) for what translate_text raised: the message of the ValueError of
\* the validation, or whatever the model's exception says.
str_of(raised) ==
    IF raised = "ValueError" THEN "Text cannot be empty"
    ELSE "internal error text"

\* The response of the translate_text route of main.py to a call of the
\* service that has returned or raised: TranslationResponse(success=True,
\* translation=result), or the HTTPException(status_code=500, detail={...})
\* raised in its except clause, which the framework answers with.
translate_route(outcome) ==
    IF outcome.raised = ""
    THEN [status_code |-> 200,
          content |-> [success |-> TRUE, translation |-> outcome.result]]
    ELSE [status_code |-> 500,
          content |-> [detail |-> [error |-> "Translation failed",
                                   details |-> str_of(outcome.raised)]]]

\* ---------------------------------------------------------------- inputs
EN == <<"en">>
ES == <<"es">>
HI == <<"hi">>
HOLA == <<"hola">>
OLA == <<"ola">>

\* The (text, source_lang, target_lang) the cache-only specification uses.
CacheArgs ==
    {<<HI, EN, ES>>, <<HI, ES, EN>>, <<HI, EN, EN>>, <<HOLA, ES, EN>>}

\* The translated texts of the entries it stores.
CacheTexts == {HOLA, OLA}

\* ---------------------------------------------------------------- init
\* The state after construction, for a cache of one of the given sizes.
InitSized(sizes) ==
    /\ now = 0
    /\ max_size \in sizes
    /\ cache = <<>>
    /\ access_times = <<>>
    /\ hit_count = 0
    /\ miss_count = 0
    /\ nops = 0
    /\ lastOp = NoOp
    /\ prevOp = NoOp
    /\ opLog = <<>>
    /\ client_requests = <<>>
    /\ checkLog = <<>>
    /\ inflight = [path \in Paths |-> 0]
    /\ dispatched = NoDispatch
    /\ metrics = PerformanceMetrics
    /\ latencies = <<>>
    /\ pc = [r \in Reqs |-> "idle"]
    /\ req = [r \in Reqs |-> NoArgs]
    /\ loc = [r \in Reqs |-> NoLocals]
    /\ out = [r \in Reqs |-> NoOutcome]

Init == InitSized(0..MaxCap)

\* Something has been asked of the cache, the limiter or the service. The
\* code reads differences of clock values only, so the time that passes
\* before the first operation changes nothing: the clock starts with it.
Started ==
    \/ nops > 0
    \/ checkLog # <<>>
    \/ \E path \in Paths : inflight[path] > 0
    \/ metrics.totalRequests > 0
    \/ metrics.memoryUsage # None
    \/ \E r \in Reqs : pc[r] # "idle"

\* Time passes: between calls and while the model computes. The in-memory
\* steps of a call take no time on the model's clock.
Tick ==
    /\ now < MaxTime
    /\ Started
    /\ \A r \in Reqs : pc[r] \in {"idle", "translate", "done"}
    /\ now' = now + 1
    /\ UNCHANGED <<cacheVars, opVars, limiterVars, svcVars>>

\* ------------------------------------------- the cache on its own
CacheGet ==
    /\ nops < MaxOps
    /\ \E a \in CacheArgs : cache_get(a[1], a[2], a[3])
    /\ UNCHANGED <<now, limiterVars, svcVars>>

CacheSet ==
    /\ nops < MaxOps
    /\ \E a \in CacheArgs, t \in CacheTexts :
         cache_set(a[1], a[2], a[3], CacheEntry(t, now, 95))
    /\ UNCHANGED <<now, limiterVars, svcVars>>

NextCache == CacheGet \/ CacheSet \/ Tick

SpecCache == Init /\ [][NextCache]_vars

\* ------------------------------------------- a cache filled to capacity
\* The texts the cache is filled with, all with one language pair, and one
\* text more.
Words ==
    <<"w01", "w02", "w03", "w04", "w05", "w06", "w07", "w08", "w09", "w10",
      "w11", "w12", "w13">>

\* The cache takes a first set of each of the first max_size texts, in
\* order.
Fill ==
    /\ nops = totalEntries
    /\ totalEntries < max_size
    /\ cache_set(<<Words[nops + 1]>>, EN, ES,
                 CacheEntry(HOLA, now, 95))
    /\ UNCHANGED <<now, limiterVars, svcVars>>

\* The cache was filled, or can hold nothing.
Filled == nops >= max_size

\* The texts asked for once the cache is filled: the first two set, the
\* last one set, and one never set.
EvictTexts ==
    {<<Words[1]>>, <<Words[2]>>, <<Words[Max(1, max_size)]>>,
     <<Words[max_size + 1]>>}

EvictGet ==
    /\ Filled
    /\ nops < max_size + MaxOps
    /\ \E text \in EvictTexts : cache_get(text, EN, ES)
    /\ UNCHANGED <<now, limiterVars, svcVars>>

EvictSet ==
    /\ Filled
    /\ nops < max_size + MaxOps
    /\ \E text \in EvictTexts :
         cache_set(text, EN, ES, CacheEntry(OLA, now, 95))
    /\ UNCHANGED <<now, limiterVars, svcVars>>

\* Time passes once the cache is filled and, while it is being filled, when
\* it is half full: the first half of the entries can be older than the rest.
EvictTick ==
    /\ Filled \/ totalEntries = max_size \div 2
    /\ Tick

NextEvict == Fill \/ EvictGet \/ EvictSet \/ EvictTick

SpecEvict == InitSized({0, EvictCap}) /\ [][NextEvict]_vars

\* ------------------------------------------- the service's cleanup
\* Variant: cleanup clears the entries and keeps the last-access times.
CleanupEntriesOnly ==
    /\ Filled
    /\ nops < max_size + MaxOps
    /\ cache' = <<>>
    /\ access_times' = access_times
    /\ UNCHANGED <<max_size, hit_count, miss_count>>
    /\ nops' = nops + 1
    /\ prevOp' = lastOp
    /\ lastOp' = OpRecord("cleanup", <<>>, None, None, {})
    /\ opLog' = Append(opLog, lastOp')
    /\ UNCHANGED <<now, limiterVars, svcVars>>
\* TranslationService.cleanup(): self.cache.cache.clear() and
\* self.cache.access_times.clear(); the counters are left as they are.
Cleanup ==
    /\ Filled
    /\ nops < max_size + MaxOps
    /\ cache' = <<>>
    /\ access_times' = <<>>
    /\ UNCHANGED <<max_size, hit_count, miss_count>>
    /\ nops' = nops + 1
    /\ prevOp' = lastOp
    /\ lastOp' = OpRecord("cleanup", <<>>, None, None, {})
    /\ opLog' = Append(opLog, lastOp')
    /\ UNCHANGED <<now, limiterVars, svcVars>>

NextCleanup == Fill \/ EvictGet \/ EvictSet \/ Cleanup \/ EvictTick

SpecCleanup == InitSized({0, EvictCap}) /\ [][NextCleanup]_vars

\* ------------------------------------------- a cache with stale entries
\* The number of cache operations of this specification.
MaxStaleOps == 6

\* The keys stored, and the one of them that is also looked up.
StaleArgs == {<<HI, EN, ES>>, <<HI, ES, EN>>, <<HOLA, ES, EN>>}
StaleGetArgs == {<<HI, EN, ES>>}

StaleGet ==
    /\ nops < MaxStaleOps
    /\ \E a \in StaleGetArgs : cache_get(a[1], a[2], a[3])
    /\ UNCHANGED <<now, limiterVars, svcVars>>

StaleSet ==
    /\ nops < MaxStaleOps
    /\ \E a \in StaleArgs :
         cache_set(a[1], a[2], a[3], CacheEntry(HOLA, now, 95))
    /\ UNCHANGED <<now, limiterVars, svcVars>>

NextStale == StaleGet \/ StaleSet \/ Tick

SpecStale == InitSized({MaxCap + 1}) /\ [][NextStale]_vars

\* ------------------------------------------- the limiter on its own
\* The client ids (digests) whose requests are checked.
ClientIds == {"c1", "c2"}

NumChecks ==
    LET RECURSIVE Sum(_)
        Sum(S) == IF S = {} THEN 0
                  ELSE LET c == CHOOSE x \in S : TRUE
                       IN Len(checkLog[c]) + Sum(S \ {c})
    IN Sum(DOMAIN checkLog)

AdmissionCheck ==
    /\ NumChecks < MaxChecks
    /\ \E c \in ClientIds : is_rate_limited(c)
    /\ UNCHANGED <<now, cacheVars, opVars, inflight, dispatched, svcVars>>

NextLimiter == AdmissionCheck \/ Tick

SpecLimiter == Init /\ [][NextLimiter]_vars

\* ------------------------------------------- the middleware's dispatch
InflightTotal ==
    LET RECURSIVE Sum(_)
        Sum(S) == IF S = {} THEN 0
                  ELSE LET p == CHOOSE x \in S : TRUE
                       IN inflight[p] + Sum(S \ {p})
    IN Sum(Paths)

\* return await call_next(request), up to the await: the request is passed on.
CallNext(path) ==
    /\ InflightTotal < MaxInflight
    /\ inflight' = [inflight EXCEPT ![path] = @ + 1]

\* RateLimitMiddleware.dispatch for a request to path, up to its return of
\* the 429 response or to its await of call_next. A response of None in
\* dispatched says that the request was passed on.
Dispatch ==
    /\ \E request \in HttpClients, path \in Paths :
         IF ~ENABLE_RATE_LIMITING \/ path \in ExemptPaths
         THEN /\ CallNext(path)
              /\ dispatched' = [request |-> request, path |-> path,
                                client_id |-> None, response |-> None]
              /\ UNCHANGED <<client_requests, checkLog>>
         ELSE LET client_id == get_client_id(request) IN
              /\ NumChecks < MaxChecks
              /\ is_rate_limited(client_id)
              /\ IF IsLimited(prune(Requests(client_id)))
                 THEN /\ inflight' = inflight
                      /\ dispatched' =
                            [request |-> request, path |-> path,
                             client_id |-> client_id,
                             response |-> TooManyRequests]
                 ELSE /\ CallNext(path)
                      /\ dispatched' =
                            [request |-> request, path |-> path,
                             client_id |-> client_id, response |-> None]
    /\ UNCHANGED <<now, cacheVars, opVars, svcVars>>

\* call_next returns: dispatch returns the downstream response.
CallNextReturns ==
    /\ \E path \in Paths :
         /\ inflight[path] > 0
         /\ inflight' = [inflight EXCEPT ![path] = @ - 1]
    /\ UNCHANGED <<now, cacheVars, opVars, client_requests, checkLog,
                   dispatched, svcVars>>

NextDispatch == Dispatch \/ CallNextReturns \/ Tick

SpecDispatch == Init /\ [][NextDispatch]_vars

\* ------------------------------------------- the metrics snapshot
\* Variant: the hit rate is reported as a fraction of one.
hit_rate_fraction ==
    LET total_requests == hit_count + miss_count
    IN  IF total_requests > 0 THEN Ratio(hit_count, total_requests)
        ELSE Ratio(0, 1)
\* TranslationCache.get_stats().hitRate: hits / (hits + misses) * 100, and 0
\* before the first get.
hit_rate ==
    LET total_requests == hit_count + miss_count
    IN  IF total_requests > 0 THEN Ratio(hit_count * 100, total_requests)
        ELSE Ratio(0, 1)

\* What _get_memory_usage can return: the figures of the process, which the
\* program does not control, or {} when reading them failed.
MemoryUsages == {<<>>, [rss |-> "bytes"]}

\* Variant: a snapshot starts the counters and the mean afresh.
snapshot_resets(m, usage) ==
    [PerformanceMetrics EXCEPT !.cacheHitRate =
                                  IF ENABLE_CACHING THEN hit_rate ELSE @,
                               !.memoryUsage = usage,
                               !.lastUpdated = now]
\* The assignments of get_performance_metrics to self.metrics.
snapshot(m, usage) ==
    [m EXCEPT !.cacheHitRate = IF ENABLE_CACHING THEN hit_rate ELSE @,
              !.memoryUsage = usage,
              !.lastUpdated = now]

\* TranslationService.get_performance_metrics(). It has no suspension point
\* either, so it runs between the translate_text calls.
GetPerformanceMetrics ==
    /\ \A r \in Reqs : pc[r] \in {"idle", "done"}
    /\ \E usage \in MemoryUsages : metrics' = snapshot(metrics, usage)
    /\ UNCHANGED <<now, cacheVars, opVars, limiterVars, latencies, callVars>>

\* ------------------------------------------- the metrics on their own
\* translate_text's "Update metrics" block, for a response time of
\* processing_time.
MetricsSuccess ==
    /\ metrics.totalRequests < MaxRecords
    /\ \E processing_time \in 0..MaxLatency :
         /\ metrics' = update_average_response_time(
                           IncSuccessful(IncTotal(metrics)), processing_time)
         /\ latencies' = Append(latencies, processing_time)
    /\ UNCHANGED <<now, cacheVars, opVars, limiterVars, callVars>>

\* translate_text's except block.
MetricsFailure ==
    /\ metrics.totalRequests < MaxRecords
    /\ metrics' = IncFailed(IncTotal(metrics))
    /\ UNCHANGED <<now, cacheVars, opVars, limiterVars, latencies, callVars>>

NextMetrics == MetricsSuccess \/ MetricsFailure

SpecMetrics == Init /\ [][NextMetrics]_vars

\* The metrics with the snapshots taken of them, as time passes.
NextSnapshot == MetricsSuccess \/ MetricsFailure \/ GetPerformanceMetrics \/ Tick

SpecSnapshot == Init /\ [][NextSnapshot]_vars

\* ------------------------------------------- the translation service
\* The (text, target_language, source_language) translate_text is called
\* with: a blank text, a text with and without surrounding blanks, a source
\* given, left out, equal to the target, and an NLLB code as target.
CallArgs ==
    {<<<<SP>>, ES, NoSource>>,
     <<HI, ES, EN>>,
     <<<<SP, "hi">>, ES, EN>>,
     <<HI, ES, NoSource>>,
     <<HI, EN, EN>>,
     <<HI, <<"spa_Latn">>, EN>>,
     <<HI, <<"spa_Latn">>, ES>>}

TranslateText ==
    \E r \in Reqs, a \in CallArgs : Call(r, a[1], a[2], a[3])

Next ==
    \/ TranslateText
    \/ \E r \in Reqs : CacheLookup(r)
    \/ \E r \in Reqs : SameLanguageShortcut(r)
    \/ \E r \in Reqs : TranslateReturns(r)
    \/ \E r \in Reqs : TranslateRaises(r)
    \/ \E r \in Reqs : Store(r)
    \/ \E r \in Reqs : RecordTotal(r)
    \/ \E r \in Reqs : RecordSuccess(r)
    \/ \E r \in Reqs : ExceptTotal(r)
    \/ \E r \in Reqs : ExceptFailed(r)
    \/ Tick

\* TranslationService() builds its cache with CACHE_MAX_SIZE: the smallest
\* capacity that holds an entry, or the largest the model configures. (A
\* capacity of 0 evicts and stores exactly as a capacity of 1 does.)
InitService == Init /\ max_size \in {1, MaxCap}

Spec == InitService /\ [][Next]_vars

\* A step of call r after its entry: a step of the event loop, or the
\* model's answer.
Step(r) ==
    \/ CacheLookup(r)
    \/ SameLanguageShortcut(r)
    \/ TranslateReturns(r)
    \/ TranslateRaises(r)
    \/ Store(r)
    \/ RecordTotal(r)
    \/ RecordSuccess(r)
    \/ ExceptTotal(r)
    \/ ExceptFailed(r)

\* The event loop runs the call that is under way, and the model answers
\* every call made to it, with a translation or with an exception. (One call
\* is under way at a time, so its next step is the one step to be taken.)
Fairness == WF_vars(\E r \in Reqs : Step(r))

\* The calls made where termination is at stake: a blank text, a text to
\* translate, and a text whose source is its target.
LiveArgs == {<<<<SP>>, ES, NoSource>>, <<HI, ES, EN>>, <<HI, EN, EN>>}

TranslateLive ==
    \E r \in Reqs, a \in LiveArgs : Call(r, a[1], a[2], a[3])

NextLive ==
    \/ TranslateLive
    \/ \E r \in Reqs : Step(r)
    \/ Tick

SpecLive == InitService /\ [][NextLive]_vars /\ Fairness


\* ================================================================ claims
\* ---------------------------------------------------------------- cache
\* A get that directly follows a set of the same key, the entry younger than
\* the TTL.
GetFollowsSet ==
    /\ lastOp.op = "get"
    /\ prevOp.op = "set"
    /\ lastOp.key = prevOp.key
    /\ lastOp.at - prevOp.entry.timestamp < ttl

\* C1: set(k, v) followed immediately by get(k), the entry's age below the
\* TTL, returns v with its hitCount incremented by exactly one, and increments
\* the aggregate hit counter by exactly one; the miss counter is unchanged.
C1_CacheRoundTrip ==
    GetFollowsSet =>
        /\ lastOp.result # None
        /\ lastOp.result.translatedText = prevOp.entry.translatedText
        /\ lastOp.result.timestamp = prevOp.entry.timestamp
        /\ lastOp.result.confidence = prevOp.entry.confidence
        /\ lastOp.result.hitCount = prevOp.entry.hitCount + 1
        /\ cache[lastOp.key] = lastOp.result
        /\ lastOp.hit = prevOp.hit + 1
        /\ lastOp.miss = prevOp.miss

\* C1's case: the set had to evict, time passed, and the get still hit.
C1_Witness ==
    /\ GetFollowsSet
    /\ prevOp.evicted # {}
    /\ lastOp.at > prevOp.at
    /\ lastOp.result # None

\* C2: a get returns the stored entry only while its age is strictly below
\* the TTL; a get of a stored entry whose age is >= ttl returns absent,
\* removes the entry (totalEntries decreases by one) and increments the miss
\* counter, not the hit counter.
C2_TtlExpiry ==
    [][(nops' = nops + 1 /\ lastOp'.op = "get") =>
        LET key == lastOp'.key IN
        /\ lastOp'.result # None =>
             /\ key \in DOMAIN cache
             /\ now - cache[key].timestamp < ttl
             /\ lastOp'.result.translatedText = cache[key].translatedText
        /\ (key \in DOMAIN cache /\ now - cache[key].timestamp >= ttl) =>
             /\ lastOp'.result = None
             /\ key \notin DOMAIN cache'
             /\ totalEntries' = totalEntries - 1
             /\ miss_count' = miss_count + 1
             /\ hit_count' = hit_count]_vars

\* C2's case: an entry was set, its TTL elapsed, and the get that followed
\* returned absent and left one entry fewer.
C2_Witness ==
    /\ lastOp.op = "get"
    /\ prevOp.op = "set"
    /\ lastOp.key = prevOp.key
    /\ lastOp.at - prevOp.entry.timestamp >= ttl
    /\ lastOp.result = None
    /\ lastOp.size = prevOp.size - 1
    /\ lastOp.miss = prevOp.miss + 1

\* C3: for every configured maxSize, the cache never holds more than maxSize
\* entries.
C3_EvictionBound == totalEntries <= max_size

\* ---------------------------------------------------------------- limiter
\* Check i of a client's log was made within the window of its first check.
WithinFirstWindow(log, i) == log[i].at - log[1].at <= window_size

\* C4: for one client id, of the checks made within W of the first exactly
\* the first N are admitted and every later one (the N+1-th) is rejected; the
\* first check made more than W after the first admitted request is admitted
\* again.
C4_RateLimitBoundary ==
    \A c \in DOMAIN checkLog :
        LET log == checkLog[c] IN
        \A i \in 1..Len(log) :
            /\ WithinFirstWindow(log, i) =>
                 (log[i].limited <=> i > calls_per_minute)
            /\ ( /\ ~log[1].limited
                 /\ ~WithinFirstWindow(log, i)
                 /\ \A j \in 1..(i - 1) : WithinFirstWindow(log, j) )
               => ~log[i].limited

\* C4's case: N admitted, the N+1-th rejected in the same window, and after
\* more than W admission resumed.
C4_Witness ==
    \E c \in DOMAIN checkLog :
        LET log == checkLog[c] IN
        /\ Len(log) >= calls_per_minute + 2
        /\ \A i \in 1..calls_per_minute : ~log[i].limited
        /\ log[calls_per_minute + 1].limited
        /\ WithinFirstWindow(log, calls_per_minute + 1)
        /\ \A i \in 1..(Len(log) - 1) : WithinFirstWindow(log, i)
        /\ ~WithinFirstWindow(log, Len(log))
        /\ ~log[Len(log)].limited

\* The timestamps of a window that are not older than at - windowSize.
InWindow(requests, at) ==
    SelectSeq(requests, LAMBDA t : t >= at - window_size)

\* C5: a check prunes the timestamps older than now - windowSize; if the
\* pruned count is >= limit it rejects and records nothing, otherwise it
\* appends exactly one timestamp, now, and admits.
C5_AdmissionEffect ==
    \A c \in DOMAIN checkLog :
        \A i \in 1..Len(checkLog[c]) :
            LET e == checkLog[c][i]
                pruned == InWindow(e.before, e.at)
            IN  IF Len(pruned) >= calls_per_minute
                THEN e.limited /\ e.after = pruned
                ELSE ~e.limited /\ e.after = Append(pruned, e.at)

\* C5's case: one client has a rejected check, and an admitted check that
\* pruned old timestamps.
C5_Witness ==
    \E c \in DOMAIN checkLog :
        LET log == checkLog[c] IN
        /\ \E i \in 1..Len(log) : log[i].limited /\ log[i].after = log[i].before
        /\ \E i \in 1..Len(log) :
             /\ ~log[i].limited
             /\ Len(InWindow(log[i].before, log[i].at)) < Len(log[i].before)

\* ---------------------------------------------------------------- service
\* Call r has returned or raised.
Done(r) == pc[r] = "done"

\* Call r is the call under way, or the last one made.
Latest(r) == pc[r] # "idle" /\ \A q \in Reqs : q > r => pc[q] = "idle"

\* Call r2 repeats call r1, which stored an entry, and looks the entry up
\* before its TTL has elapsed and with no eviction of it in between.
RepeatsInTime(r1, r2) ==
    /\ r1 < r2
    /\ Done(r1)
    /\ Done(r2)
    /\ req[r2] = req[r1]
    /\ out[r1].stored # None
    /\ out[r2].lookupAt - out[r1].stored.timestamp < ttl
    /\ \A q \in Reqs : (r1 < q /\ q < r2) => out[r1].key \notin out[q].evicted

\* C6: after a request was translated by the model, an identical request made
\* before TTL expiry or eviction returns the same translated text with
\* cached = true and does not call the model.
C6_RepeatIsCacheHit ==
    \A r1, r2 \in Reqs :
        (RepeatsInTime(r1, r2) /\ out[r1].kind = "computed") =>
            /\ out[r2].kind = "hit"
            /\ out[r2].result.cached = TRUE
            /\ out[r2].result.translatedText = out[r1].result.translatedText
            /\ out[r2].result.translatedText = loc[r1].translated_text
            /\ out[r2].calls = 0

\* C6's case: a computed translation, then the same request later, a hit.
C6_Witness ==
    \E r1, r2 \in Reqs :
        /\ RepeatsInTime(r1, r2)
        /\ out[r1].kind = "computed"
        /\ out[r1].calls = 1
        /\ out[r2].lookupAt > out[r1].stored.timestamp
        /\ out[r2].kind = "hit"

\* The source language a call works with: the one given, else the default.
SourceOf(r) ==
    IF req[r].source_language = NoSource THEN EN ELSE req[r].source_language

\* Call r has a text to translate and its source equals its target.
SameLanguageCall(r) ==
    /\ pc[r] # "idle"
    /\ strip(req[r].text) # <<>>
    /\ SourceOf(r) = req[r].target_language

\* C7: a request whose source equals its target never calls the model and
\* returns the trimmed input text with confidence 1.0; when it is not served
\* from the cache it has cached = false and writes that result into the
\* cache; a second identical request is a cache hit.
C7_SameLanguageShortcut ==
    /\ \A r \in Reqs :
         SameLanguageCall(r) =>
            /\ out[r].calls = 0
            /\ pc[r] \in {"lookup", "same", "done"}
            /\ Done(r) =>
                 /\ out[r].kind \in {"same", "hit"}
                 /\ out[r].result.translatedText = strip(req[r].text)
                 /\ out[r].result.confidence = 100
                 /\ out[r].result.cached = (out[r].kind = "hit")
                 /\ out[r].kind = "same" =>
                      /\ out[r].stored # None
                      /\ out[r].stored.translatedText = strip(req[r].text)
                      /\ out[r].stored.confidence = 100
            /\ (Done(r) /\ Latest(r) /\ out[r].kind = "same") =>
                 /\ out[r].key \in DOMAIN cache
                 /\ cache[out[r].key] = out[r].stored
    /\ \A r1, r2 \in Reqs :
         (RepeatsInTime(r1, r2) /\ out[r1].kind = "same") =>
            /\ out[r2].kind = "hit"
            /\ out[r2].result.cached = TRUE
            /\ out[r2].result.translatedText = strip(req[r1].text)

\* C7's case: a same-language request took the shortcut and its repeat hit.
C7_Witness ==
    \E r1, r2 \in Reqs :
        /\ SameLanguageCall(r1)
        /\ RepeatsInTime(r1, r2)
        /\ out[r1].kind = "same"
        /\ out[r1].result.cached = FALSE
        /\ out[r2].kind = "hit"

\* C8: when the model fails, the request records exactly one failure
\* (total + 1, failed + 1), the failure reaches the caller, the model was
\* called once and not again, and no entry is stored under the request's key.
C8_ComputeFailure ==
    \A r \in Reqs :
        (Latest(r) /\ out[r].raised = "ComputeError") =>
            /\ out[r].calls = 1
            /\ pc[r] \in {"except", "except2", "done"}
            /\ out[r].stored = None
            /\ out[r].key \notin DOMAIN cache
            /\ metrics.successfulTranslations =
                 loc[r].metrics0.successfulTranslations
            /\ metrics.averageResponseTime = loc[r].metrics0.averageResponseTime
            /\ Done(r) =>
                 /\ out[r].kind = "error"
                 /\ out[r].result = None
                 /\ metrics.totalRequests = loc[r].metrics0.totalRequests + 1
                 /\ metrics.failedTranslations =
                      loc[r].metrics0.failedTranslations + 1

\* C8's case: a failed translation after an earlier successful one.
C8_Witness ==
    \E r \in Reqs :
        /\ Latest(r)
        /\ Done(r)
        /\ out[r].raised = "ComputeError"
        /\ loc[r].metrics0.successfulTranslations > 0

\* C9: a request rejected because its text is empty after trimming changes no
\* metrics counter: totalRequests, successfulTranslations, failedTranslations
\* and the mean latency are all unchanged.
C9_ValidationLeavesMetrics ==
    \A r \in Reqs :
        (Latest(r) /\ Done(r) /\ out[r].raised = "ValueError") =>
            metrics = loc[r].metrics0

\* C10: a request whose text is empty after trimming is rejected before any
\* cache lookup or model call: the cache entries and the hit and miss
\* counters are unchanged, the model is never called for it, and the failure
\* reaches the caller.
C10_ValidationFirst ==
    \A r \in Reqs :
        (Latest(r) /\ strip(req[r].text) = <<>>) =>
            /\ pc[r] \in {"except", "except2", "done"}
            /\ out[r].raised = "ValueError"
            /\ out[r].calls = 0
            /\ CacheState = loc[r].cache0
            /\ Done(r) => out[r].kind = "error" /\ out[r].result = None

\* C10's case: a blank text was rejected while the cache held an entry.
C10_Witness ==
    \E r \in Reqs :
        /\ Latest(r)
        /\ Done(r)
        /\ strip(req[r].text) = <<>>
        /\ req[r].text # <<>>
        /\ out[r].raised = "ValueError"
        /\ DOMAIN cache # {}

\* ---------------------------------------------------------------- metrics
RECURSIVE SumSeq(_)
SumSeq(s) == IF s = <<>> THEN 0 ELSE Head(s) + SumSeq(Tail(s))

\* C11: after any sequence of recorded successful latencies, of length 1 or
\* more and interleaved with any number of failures, averageResponseTime is
\* the arithmetic mean of exactly those latencies: mean *
\* successfulTranslations equals their sum. (The mean is an exact fraction
\* here; the rounding of Python's floats is not modelled.)
C11_RunningMean ==
    /\ metrics.successfulTranslations = Len(latencies)
    /\ Len(latencies) >= 1 =>
         LET mean == metrics.averageResponseTime IN
         /\ mean.den > 0
         /\ mean.num * metrics.successfulTranslations
              = SumSeq(latencies) * mean.den
         /\ mean = Ratio(SumSeq(latencies), Len(latencies))

\* C11's case: three latencies, not all equal, with a failure recorded among
\* them, and a mean that is not a whole number.
C11_Witness ==
    /\ Len(latencies) = 3
    /\ latencies[1] # latencies[2]
    /\ latencies[2] # latencies[3]
    /\ metrics.failedTranslations >= 1
    /\ metrics.averageResponseTime.den = 3

\* The producer tag of every translation: TranslationResult.translator.
Producer == "nllb-200"

\* metrics.modelUsage.get(tag, 0), as a snapshot reports it.
UsageOf(m, tag) == IF tag \in DOMAIN m.modelUsage THEN m.modelUsage[tag] ELSE 0

\* C12: every recorded successful fresh compute increments the usage count of
\* its producer tag by one: after k successes by the producer, the snapshot's
\* per-producer usage count for it is k.
C12_PerProducerUsage ==
    UsageOf(metrics, Producer) = metrics.successfulTranslations

\* C13: recording a failure increments the total and failed counters by
\* exactly one each and leaves the successful counter and the running mean
\* unchanged, whatever was raised.
C13_FailureFrame ==
    \A r \in Reqs :
        (Latest(r) /\ out[r].raised # "") =>
            LET before == loc[r].metrics0 IN
            /\ metrics.successfulTranslations = before.successfulTranslations
            /\ metrics.averageResponseTime = before.averageResponseTime
            /\ pc[r] = "except" => metrics = before
            /\ pc[r] = "except2" =>
                 /\ metrics.totalRequests = before.totalRequests + 1
                 /\ metrics.failedTranslations = before.failedTranslations
            /\ Done(r) =>
                 /\ metrics.totalRequests = before.totalRequests + 1
                 /\ metrics.failedTranslations = before.failedTranslations + 1

\* C13's case: a failure was recorded after a success had left a mean other
\* than zero.
C13_Witness ==
    \E r \in Reqs :
        /\ Latest(r)
        /\ Done(r)
        /\ out[r].kind = "error"
        /\ loc[r].metrics0.successfulTranslations = 1
        /\ loc[r].metrics0.averageResponseTime.num > 0
        /\ metrics.failedTranslations = 1

\* C14: in every reachable state, between the steps of a request as well,
\* successfulTranslations + failedTranslations <= totalRequests.
C14_CounterInvariant ==
    metrics.successfulTranslations + metrics.failedTranslations
        <= metrics.totalRequests

\* C14's case: a request between its two counter updates, the total already
\* counted and the outcome not yet, after an earlier request was counted.
C14_Witness ==
    \E r \in Reqs :
        /\ pc[r] \in {"metrics2", "except2"}
        /\ loc[r].metrics0.totalRequests >= 1
        /\ metrics.successfulTranslations + metrics.failedTranslations
             < metrics.totalRequests

\* The entry call r stored is the entry the cache holds under r's key.
Populated(r) ==
    /\ out[r].stored # None
    /\ out[r].key \in DOMAIN cache
    /\ cache[out[r].key] = out[r].stored
    /\ lastOp.op = "set"
    /\ lastOp.key = out[r].key

\* C15: on every path that produces a fresh result (the same-language
\* shortcut and a successful compute) the cache entry is written before the
\* result is returned; on the compute path the order is: Translate returns,
\* cache set, metrics success recorded (total + 1, successful + 1, mean
\* updated), return.
C15_PopulateBeforeReturn ==
    \A r \in Reqs :
        Latest(r) =>
            LET before == loc[r].metrics0 IN
            /\ pc[r] = "translate" =>
                 out[r].calls = 0 /\ out[r].stored = None /\ metrics = before
            /\ pc[r] = "store" =>
                 /\ out[r].calls = 1
                 /\ out[r].stored = None
                 /\ out[r].key \notin DOMAIN cache
                 /\ metrics = before
            /\ pc[r] = "metrics" =>
                 out[r].calls = 1 /\ Populated(r) /\ metrics = before
            /\ pc[r] = "metrics2" =>
                 /\ Populated(r)
                 /\ metrics.totalRequests = before.totalRequests + 1
                 /\ metrics.successfulTranslations
                      = before.successfulTranslations
                 /\ metrics.averageResponseTime = before.averageResponseTime
            /\ (Done(r) /\ out[r].kind = "computed") =>
                 /\ Populated(r)
                 /\ out[r].result.cached = FALSE
                 /\ metrics.totalRequests = before.totalRequests + 1
                 /\ metrics.successfulTranslations
                      = before.successfulTranslations + 1
                 /\ latencies # <<>>
                 /\ latencies[Len(latencies)] = loc[r].processing_time
                 /\ metrics.averageResponseTime
                      = Ratio(SumSeq(latencies), Len(latencies))
            /\ (Done(r) /\ out[r].kind = "same") =>
                 /\ Populated(r)
                 /\ out[r].result.cached = FALSE
                 /\ out[r].calls = 0

\* C15's case: a same-language result and then a computed one that took time
\* were both returned with their entries in the cache.
C15_Witness ==
    \E r1, r2 \in Reqs :
        /\ r1 < r2
        /\ out[r1].kind = "same"
        /\ out[r2].kind = "computed"
        /\ Done(r2)
        /\ loc[r2].processing_time > 0
        /\ Populated(r2)
        /\ out[r1].key \in DOMAIN cache

\* ---------------------------------------------------------------- keys
\* Call r2 asks for the text and the resolved (NLLB) tags of call r1, which
\* stored an entry, and looks it up before the TTL has elapsed and with no
\* eviction of it in between.
SameResolvedInTime(r1, r2) ==
    /\ r1 < r2
    /\ Done(r1)
    /\ Done(r2)
    /\ out[r1].stored # None
    /\ loc[r2].text = loc[r1].text
    /\ loc[r2].source_nllb = loc[r1].source_nllb
    /\ loc[r2].target_nllb = loc[r1].target_nllb
    /\ out[r2].lookupAt - out[r1].stored.timestamp < ttl
    /\ \A q \in Reqs : (r1 < q /\ q < r2) => out[r1].key \notin out[q].evicted

\* C16: the cache key is derived from the resolved source and target tags:
\* two requests with the same text whose language identifiers are aliases of
\* the same canonical tags ("es" and "spa_Latn") map to the same cache entry
\* and the second is a cache hit.
C16_KeyUsesResolvedTags ==
    \A r1, r2 \in Reqs :
        SameResolvedInTime(r1, r2) =>
            /\ out[r2].key = out[r1].key
            /\ out[r2].kind = "hit"

\* Call r has derived its cache key.
HasKey(r) == out[r].key # <<>>

\* Calls r1 and r2 were given the same tags and texts that differ at most in
\* leading or trailing whitespace.
SameUpToBlanks(r1, r2) ==
    /\ strip(req[r1].text) = strip(req[r2].text)
    /\ req[r1].source_language = req[r2].source_language
    /\ req[r1].target_language = req[r2].target_language

\* C17: key derivation is deterministic and pure: it changes no cache state,
\* yields the same key for the same inputs, and two requests whose texts
\* differ only in leading or trailing whitespace (same tags) use the same key,
\* for the lookup and for the store. (Purity is by construction here:
\* generate_key is an operator on its arguments alone.)
C17_KeyDeterministic ==
    /\ \A r1, r2 \in Reqs :
         (HasKey(r1) /\ HasKey(r2) /\ SameUpToBlanks(r1, r2)) =>
            out[r1].key = out[r2].key
    /\ \A r \in Reqs :
         (Latest(r) /\ HasKey(r)) =>
            /\ lastOp.key = out[r].key
            /\ lastOp.op = "set" => prevOp.op = "get" /\ prevOp.key = out[r].key
            /\ out[r].stored # None => lastOp.op = "set"

\* C17's case: a text with a leading blank and the same text without it were
\* both looked up and stored, under one key.
C17_Witness ==
    \E r1, r2 \in Reqs :
        /\ r1 # r2
        /\ SameUpToBlanks(r1, r2)
        /\ req[r1].text # req[r2].text
        /\ out[r1].stored # None
        /\ out[r2].stored # None
        /\ out[r1].key = out[r2].key

\* ---------------------------------------------------------------- interleaving
\* Operation j of the log is a get of the key that operation i set, with no
\* later set of that key, no eviction of it and no expiry in between; any
\* operations on other keys may lie between the two.
GetAfterSet(i, j) ==
    /\ i < j
    /\ opLog[i].op = "set"
    /\ opLog[j].op = "get"
    /\ opLog[j].key = opLog[i].key
    /\ \A m \in (i + 1)..(j - 1) :
         /\ ~(opLog[m].op = "set" /\ opLog[m].key = opLog[i].key)
         /\ opLog[i].key \notin opLog[m].evicted
    /\ opLog[j].at - opLog[i].entry.timestamp < ttl

\* The gets of operation i's key among operations i+1..j.
GetsOfKey(i, j) ==
    {m \in (i + 1)..j : opLog[m].op = "get" /\ opLog[m].key = opLog[i].key}

\* C18: for a single cache key, any get that happens after a set for that
\* key returns the set value, whatever operations on other keys are
\* interleaved, unless the entry has expired or was evicted in between.
C18_PerKeyConsistency ==
    \A i, j \in 1..Len(opLog) :
        GetAfterSet(i, j) =>
            /\ opLog[j].result # None
            /\ opLog[j].result.translatedText = opLog[i].entry.translatedText
            /\ opLog[j].result.timestamp = opLog[i].entry.timestamp
            /\ opLog[j].result.confidence = opLog[i].entry.confidence
            /\ opLog[j].result.hitCount
                 = opLog[i].entry.hitCount + Cardinality(GetsOfKey(i, j))

\* C18's case: between the set and the get of one key, time passed and
\* another key was set.
C18_Witness ==
    \E i, j \in 1..Len(opLog) :
        /\ GetAfterSet(i, j)
        /\ opLog[j].at > opLog[i].at
        /\ \E m \in (i + 1)..(j - 1) :
             opLog[m].op = "set" /\ opLog[m].key # opLog[i].key
        /\ opLog[j].result # None

\* The checks 1..i of a log that admitted a request at or after time t.
AdmittedSince(log, i, t) == {j \in 1..i : ~log[j].limited /\ log[j].at >= t}

\* C20: the prune-check-append of one client is atomic with respect to the
\* other admission checks going on: every check starts from the history the
\* client's previous check left, and the checks never admit more than
\* calls_per_minute requests of one client within one window, however many
\* requests are being handled at the time.
C20_AtomicAdmission ==
    \A c \in DOMAIN checkLog :
        LET log == checkLog[c] IN
        /\ log[1].before = <<>>
        /\ \A i \in 1..(Len(log) - 1) : log[i + 1].before = log[i].after
        /\ client_requests[c] = log[Len(log)].after
        /\ \A i \in 1..Len(log) :
             ~log[i].limited =>
                Cardinality(AdmittedSince(log, i, log[i].at - window_size))
                    <= calls_per_minute

\* C20's case: one client has calls_per_minute requests admitted and a
\* further one rejected, another client has one admitted, and every admitted
\* request is still being handled.
C20_Witness ==
    \E c, d \in DOMAIN checkLog :
        LET log == checkLog[c] IN
        /\ c # d
        /\ Len(checkLog[d]) = 1
        /\ Len(log) = calls_per_minute + 1
        /\ \A i \in 1..calls_per_minute : ~log[i].limited
        /\ log[Len(log)].limited
        /\ inflight["/translate"] = calls_per_minute + 1

\* A step of dispatch: a request was passed on, or a check was logged.
DispatchStep ==
    \/ checkLog' # checkLog
    \/ \E path \in Paths : inflight'[path] > inflight[path]

\* C21: a request to an exempt infrastructure path (health probe, root,
\* documentation) is never answered by the limiter and records no timestamp
\* in any client's window: it is passed on and every window is left as it
\* was, whatever the window of its client holds.
C21_ExemptPaths ==
    [][(DispatchStep /\ dispatched'.path \in {"/health", "/", "/docs", "/redoc"})
          => /\ dispatched'.response = None
             /\ inflight'[dispatched'.path] = inflight[dispatched'.path] + 1
             /\ client_requests' = client_requests
             /\ checkLog' = checkLog]_vars

\* C21's case: a health probe was passed on for a client whose window is
\* full, so that a checked request of that client would be rejected.
C21_Witness ==
    /\ dispatched.path = "/health"
    /\ dispatched.response = None
    /\ inflight["/health"] > 0
    /\ IsLimited(prune(Requests(get_client_id(dispatched.request))))

\* The last admission check logged for a client id.
LastCheck(log, client_id) == log[client_id][Len(log[client_id])]

\* A step of dispatch whose admission check rejected the request.
RejectingStep ==
    /\ checkLog' # checkLog
    /\ dispatched'.client_id \in DOMAIN checkLog'
    /\ LastCheck(checkLog', dispatched'.client_id).limited

\* C22: a rejected request is answered with a structured too-many-requests
\* response whose retry hint is the window size, and nothing downstream is
\* called for it: no request is passed on, no translate_text call starts or
\* moves, and the cache and the metrics are left as they were.
C22_RejectionContained ==
    [][RejectingStep
          => /\ dispatched'.response.status_code = 429
             /\ dispatched'.response.content.retry_after = WINDOW_SIZE_SECONDS
             /\ inflight' = inflight
             /\ UNCHANGED <<cacheVars, opVars, metricsVars, callVars>>]_vars

\* C22's case: a request to /translate was rejected while requests admitted
\* earlier were still being handled downstream.
C22_Witness ==
    /\ dispatched.path = "/translate"
    /\ dispatched.response # None
    /\ dispatched.response.status_code = 429
    /\ LastCheck(checkLog, dispatched.client_id).limited
    /\ inflight["/translate"] = calls_per_minute

\* A step that wrote one of the fields get_performance_metrics assigns.
SnapshotStep ==
    <<metrics'.cacheHitRate, metrics'.memoryUsage, metrics'.lastUpdated>>
        # <<metrics.cacheHitRate, metrics.memoryUsage, metrics.lastUpdated>>

\* C23, as stated: taking a snapshot leaves the three counters and the
\* running mean as they were and writes no stored field of the metrics
\* other than lastUpdated.
C23_SnapshotReadOnly ==
    [][SnapshotStep
          => metrics' = [metrics EXCEPT !.lastUpdated = metrics'.lastUpdated]]_vars

\* C23, amended: taking a snapshot leaves the three counters, the running
\* mean and the usage counts as they were; the stored fields it writes are
\* cacheHitRate, memoryUsage and lastUpdated, the last one set to now.
C23_SnapshotFrame ==
    [][SnapshotStep
          => /\ metrics' = [metrics EXCEPT
                               !.cacheHitRate = metrics'.cacheHitRate,
                               !.memoryUsage = metrics'.memoryUsage,
                               !.lastUpdated = now]
             /\ latencies' = latencies]_vars

\* C23's case: a snapshot has been taken of metrics that hold successes, a
\* failure and a mean above zero.
C23_Witness ==
    /\ metrics.memoryUsage # None
    /\ metrics.lastUpdated > 0
    /\ metrics.successfulTranslations >= 2
    /\ metrics.failedTranslations >= 1
    /\ metrics.averageResponseTime.num > 0

\* C24: a request served from the cache returns the text and the confidence
\* of the entry the cache held, with cached = true, without calling the
\* model, and leaves the successful and failed counters and the running mean
\* as they were when the request came in.
C24_CacheHitFrame ==
    \A r \in Reqs :
        (Latest(r) /\ out[r].kind = "hit") =>
            LET before == loc[r].metrics0
                entry == loc[r].cache0[1][out[r].key]
            IN  /\ Done(r)
                /\ out[r].result.translatedText = entry.translatedText
                /\ out[r].result.confidence = entry.confidence
                /\ out[r].result.cached
                /\ out[r].calls = 0
                /\ metrics.successfulTranslations = before.successfulTranslations
                /\ metrics.failedTranslations = before.failedTranslations
                /\ metrics.averageResponseTime = before.averageResponseTime

\* C24's case: a request was served from the cache after the translation
\* that filled the entry had left a mean above zero.
C24_Witness ==
    \E r \in Reqs :
        /\ Latest(r)
        /\ out[r].kind = "hit"
        /\ out[r].result.confidence = 95
        /\ loc[r].metrics0.successfulTranslations = 1
        /\ loc[r].metrics0.averageResponseTime.num > 0

\* The last-access time a last-access map holds for key.
AccessTime(at, key) ==
    LET i == CHOOSE j \in 1..Len(at) : at[j].key = key IN at[i].time

\* A step in which the cache performed a set.
SetStep == nops' = nops + 1 /\ lastOp'.op = "set"

\* C25: a set performed when the cache holds size >= maxSize entries first
\* removes exactly max(1, floor(size / 5)) entries, none of them accessed
\* later than an entry it retains, and only then inserts the new entry and
\* records now as its last-access time; the retained entries keep their
\* values and last-access times.
C25_EvictionPolicy ==
    [][(SetStep /\ totalEntries >= max_size)
          => LET size == totalEntries
                 removed == lastOp'.evicted
                 retained == DOMAIN cache \ removed
             IN  /\ removed \subseteq DOMAIN cache
                 /\ Cardinality(removed) = Max(1, size \div 5)
                 /\ \A k \in removed, j \in retained :
                        AccessTime(access_times, k) <= AccessTime(access_times, j)
                 /\ DOMAIN cache' = retained \cup {lastOp'.key}
                 /\ cache'[lastOp'.key] = lastOp'.entry
                 /\ AccessTime(access_times', lastOp'.key) = now
                 /\ \A j \in retained \ {lastOp'.key} :
                        /\ cache'[j] = cache[j]
                        /\ AccessTime(access_times', j)
                              = AccessTime(access_times, j)]_vars

\* The gets of the log that returned an entry (hit = TRUE) or None.
GetsInLog(hit) ==
    {i \in 1..Len(opLog) :
        opLog[i].op = "get" /\ ((opLog[i].result # None) <=> hit)}

\* C26: every get increments exactly one of the hit counter (an entry was
\* returned) and the miss counter (absent or expired), so hits + misses is
\* the number of gets performed; the hit rate of the statistics is 0 when no
\* get has been made, and otherwise hits / (hits + misses) as a percentage.
C26_HitMissAccounting ==
    LET hits == Cardinality(GetsInLog(TRUE))
        misses == Cardinality(GetsInLog(FALSE))
    IN  /\ hit_count = hits
        /\ miss_count = misses
        /\ hits + misses = 0 => hit_rate = Ratio(0, 1)
        /\ hits + misses > 0 => hit_rate = Ratio(100 * hits, hits + misses)

\* C26's case: one get returned an entry and a later one found the entry
\* expired and removed it, so the rate is strictly between 0 and 100.
C26_Witness ==
    /\ hit_count = 1
    /\ miss_count = 1
    /\ \E i \in GetsInLog(FALSE) : i > 1 /\ opLog[i].size < opLog[i - 1].size
    /\ hit_rate = Ratio(50, 1)

\* C27, as stated: in every state, every timestamp held in a client's window
\* is >= now - windowSize.
C27_WindowInvariant ==
    \A c \in DOMAIN client_requests :
        \A i \in 1..Len(client_requests[c]) :
            client_requests[c][i] >= now - window_size

\* The timestamps of a window that lie in [at - windowSize, at].
CountedAt(requests, at) ==
    {i \in 1..Len(requests) :
        requests[i] >= at - window_size /\ requests[i] <= at}

\* C27, amended: each admission check of a client first prunes the
\* timestamps older than now - windowSize, so its decision counts only the
\* timestamps inside [now - windowSize, now] and the window it leaves holds
\* only such timestamps; between two checks of a client its window keeps
\* timestamps that have grown older than that.
C27_WindowAtCheck ==
    \A c \in DOMAIN checkLog :
        \A i \in 1..Len(checkLog[c]) :
            LET e == checkLog[c][i] IN
            /\ e.limited <=>
                 Cardinality(CountedAt(e.before, e.at)) >= calls_per_minute
            /\ CountedAt(e.after, e.at) = 1..Len(e.after)

\* C27's case: a check found a timestamp older than now - windowSize in the
\* window, and admitted the request on the count of the others.
C27_Witness ==
    \E c \in DOMAIN checkLog :
        \E i \in 1..Len(checkLog[c]) :
            LET e == checkLog[c][i] IN
            /\ Len(e.before) = calls_per_minute
            /\ e.before[1] < e.at - window_size
            /\ e.before[Len(e.before)] >= e.at - window_size
            /\ ~e.limited

\* The inputs a client id is derived from: the first X-Forwarded-For entry if
\* the header is present, else the peer address, and the User-Agent string.
DerivedInputs(request) ==
    <<IF request.forwarded_for # <<>>
      THEN strip(first_field(request.forwarded_for))
      ELSE IF request.client # NoPeer THEN request.client ELSE <<"unknown">>,
      request.user_agent>>

\* The log of the admission checks of a client id, empty before its first.
ChecksOf(log, client_id) ==
    IF client_id \in DOMAIN log THEN log[client_id] ELSE <<>>

\* The client ids of the requests the model sends.
SentIds == {get_client_id(request) : request \in HttpClients}

\* C28: two requests with the same derived inputs map to the same client id
\* and are checked against one window; an admission check for one client id
\* changes neither the window nor the check log of any other client id, nor
\* the decision a check of that other client would get.
C28_ClientIsolation ==
    [][(DispatchStep /\ dispatched'.client_id # None)
          => LET c == dispatched'.client_id IN
             /\ \A q \in HttpClients :
                    DerivedInputs(q) = DerivedInputs(dispatched'.request)
                        => get_client_id(q) = c
             /\ Len(ChecksOf(checkLog', c)) = Len(ChecksOf(checkLog, c)) + 1
             /\ \A d \in SentIds \ {c} :
                    /\ Requests(d)' = Requests(d)
                    /\ ChecksOf(checkLog', d) = ChecksOf(checkLog, d)
                    /\ IsLimited(prune(Requests(d)))'
                          = IsLimited(prune(Requests(d)))]_vars

\* C28's case: a request that came directly from its peer was rejected on a
\* full window, while another client id, whose requests come from the same
\* peer address with another forwarded-for entry, has had one check and
\* holds its one timestamp.
C28_Witness ==
    \E d \in DOMAIN checkLog :
        /\ dispatched.request.forwarded_for = <<>>
        /\ dispatched.response # None
        /\ d # dispatched.client_id
        /\ Len(checkLog[d]) = 1
        /\ Len(client_requests[d]) = 1
        /\ Len(client_requests[dispatched.client_id]) = calls_per_minute

\* C29: when a translate request fails with a compute failure, the response
\* of the route is a generic failure that carries the internal error detail
\* only if debug mode is enabled.
C29_NoDetailLeak ==
    \A r \in Reqs :
        (Done(r) /\ out[r].raised = "ComputeError") =>
            LET response == translate_route(out[r]) IN
            /\ response.status_code = 500
            /\ response.content.detail.details = str_of(out[r].raised) => DEBUG

\* Call r has a text to translate, and its source and its target resolve to
\* one tag.
SameResolvedTag(r) ==
    /\ pc[r] # "idle"
    /\ strip(req[r].text) # <<>>
    /\ loc[r].source_nllb = loc[r].target_nllb

\* C30: whenever the resolved source tag equals the resolved target tag,
\* aliases of one tag included, the call never invokes the model and returns
\* the input text unchanged with the maximal confidence.
C30_ShortcutOnResolvedTags ==
    \A r \in Reqs :
        SameResolvedTag(r) =>
            /\ pc[r] # "translate"
            /\ out[r].calls = 0
            /\ Done(r) =>
                 /\ out[r].raised = ""
                 /\ out[r].result.translatedText = loc[r].text
                 /\ out[r].result.confidence = 100

\* Call r was given no source language, or the default one by name.
DefaultSource(r) == req[r].source_language \in {NoSource, EN}

\* C31: when no source is supplied, resolution yields the same default tag
\* for every input, so two requests with the same text and target and no
\* source use the same cache key, and they share it with the same request
\* naming the default source "en".
C31_DefaultSourceKey ==
    /\ \A r \in Reqs :
         (HasKey(r) /\ req[r].source_language = NoSource) =>
            /\ loc[r].source_nllb = <<"eng_Latn">>
            /\ loc[r].source_language = EN
    /\ \A r1, r2 \in Reqs :
         ( /\ HasKey(r1) /\ HasKey(r2)
           /\ DefaultSource(r1) /\ DefaultSource(r2)
           /\ strip(req[r1].text) = strip(req[r2].text)
           /\ req[r1].target_language = req[r2].target_language )
         => out[r1].key = out[r2].key

\* C31's case: a request without a source was translated and stored, and the
\* same request naming "en" was then served from the cache.
C31_Witness ==
    \E r1, r2 \in Reqs :
        /\ r1 < r2
        /\ req[r1].source_language = NoSource
        /\ req[r2].source_language = EN
        /\ out[r1].kind = "computed"
        /\ out[r1].stored # None
        /\ out[r2].kind = "hit"
        /\ out[r2].key = out[r1].key

\* The terminal states call r is in: validation failure, cache hit,
\* same-language result, compute success, compute failure.
TerminalStates(r) ==
    {k \in {"validation", "hit", "same", "computed", "failure"} :
        \/ k = "validation" /\ out[r].kind = "error" /\ out[r].raised = "ValueError"
        \/ k = "hit" /\ out[r].kind = "hit" /\ out[r].raised = ""
        \/ k = "same" /\ out[r].kind = "same" /\ out[r].raised = ""
        \/ k = "computed" /\ out[r].kind = "computed" /\ out[r].raised = ""
        \/ k = "failure" /\ out[r].kind = "error" /\ out[r].raised = "ComputeError"}

\* A call that has ended is in exactly one terminal state, and a call that
\* has not is in none.
OneTerminalState ==
    \A r \in Reqs :
        Cardinality(TerminalStates(r)) = IF Done(r) THEN 1 ELSE 0

\* A call waiting for the model goes on only when the model has answered:
\* nothing times the call out or cancels it.
OnlyTheModelEndsTheWait ==
    \A r \in Reqs :
        (pc[r] = "translate" /\ pc'[r] # "translate")
            => out'[r].calls = out[r].calls + 1

\* C32: provided the model answers every call made to it, every call that
\* enters translate_text ends, in exactly one of validation failure, cache
\* hit, same-language result, compute success and compute failure; a call
\* waiting for the model leaves that wait only by the model's answer.
C32_OneTerminalState ==
    /\ \A r \in Reqs : (pc[r] # "idle") ~> Done(r)
    /\ []OneTerminalState
    /\ [][OnlyTheModelEndsTheWait]_vars

\* C32's case: one call has ended on a failure of the model and the other on
\* a result the model computed.
C32_Witness ==
    \E r1, r2 \in Reqs :
        /\ Done(r1) /\ TerminalStates(r1) = {"failure"}
        /\ Done(r2) /\ TerminalStates(r2) = {"computed"}

\* The checks 1..i of a log that admitted a request at a time in
\* [log[i].at - windowSize, log[i].at].
AdmittedInWindow(log, i) ==
    {j \in 1..i : /\ ~log[j].limited
                  /\ log[j].at >= log[i].at - window_size
                  /\ log[j].at <= log[i].at}

\* The timestamps of a window are in non-decreasing order.
NonDecreasing(requests) ==
    \A i \in 1..(Len(requests) - 1) : requests[i] <= requests[i + 1]

\* C33: for every client id and every request admitted at time t, at most
\* calls_per_minute admitted requests of that client have timestamps in
\* [t - windowSize, t]; equivalently, the window each admission check leaves
\* holds at most calls_per_minute timestamps, in non-decreasing order, one
\* for each admitted request of the window.
C33_SlidingWindowBound ==
    \A c \in DOMAIN checkLog :
        \A i \in 1..Len(checkLog[c]) :
            LET log == checkLog[c]
                e == log[i]
            IN  /\ ~e.limited =>
                     Cardinality(AdmittedInWindow(log, i)) <= calls_per_minute
                /\ Len(e.after) <= calls_per_minute
                /\ NonDecreasing(e.after)
                /\ Len(e.after) = Cardinality(AdmittedInWindow(log, i))

\* C33's case: a client's window is full, and holds a timestamp exactly
\* windowSize old next to one taken now.
C33_Witness ==
    \E c \in DOMAIN checkLog :
        LET e == checkLog[c][Len(checkLog[c])] IN
        /\ ~e.limited
        /\ Len(e.after) = calls_per_minute
        /\ e.after[1] = e.at - window_size
        /\ e.after[Len(e.after)] = e.at
        /\ Len(checkLog[c]) > calls_per_minute

\* C34, as stated: an eviction triggered by a set removes at most
\* size - maxSize + 1 entries, no more than the pending insert needs.
C34_EvictionMinimality ==
    [][(SetStep /\ totalEntries >= max_size)
          => Cardinality(lastOp'.evicted) <= totalEntries - max_size + 1]_vars

\* C34, amended: an eviction triggered by a set removes a batch of at most
\* max(1, floor(size / 5)) entries, whatever the pending insert needs; from
\* 10 entries on that is more than size - maxSize + 1 for a cache that is
\* just full.
C34_EvictionBatch ==
    [][(SetStep /\ totalEntries >= max_size)
          => /\ Cardinality(lastOp'.evicted) <= Max(1, totalEntries \div 5)
             /\ (totalEntries = max_size /\ totalEntries >= 10)
                   => Cardinality(lastOp'.evicted) > totalEntries - max_size + 1]_vars

\* C34's case: a set of a new key into a cache that was just full removed two
\* entries, one more than the insert needed.
C34_Witness ==
    /\ lastOp.op = "set"
    /\ prevOp.size = max_size
    /\ max_size > 0
    /\ Cardinality(lastOp.evicted) = 2
    /\ lastOp.size = max_size - 1

\* A window is what is left of another after dropping some of its oldest
\* timestamps.
IsSuffix(after, before) ==
    \E k \in 0..Len(before) : after = SubSeq(before, k + 1, Len(before))

\* C35: a check of a client made more than windowSize after the oldest
\* admitted request recorded in its window is admitted, whatever number of
\* rejected attempts came in between: a rejected attempt records nothing, it
\* leaves the window it found less the timestamps that have grown old.
C35_ReAdmission ==
    \A c \in DOMAIN checkLog :
        \A i \in 1..Len(checkLog[c]) :
            LET e == checkLog[c][i] IN
            /\ (e.before # <<>> /\ e.at > e.before[1] + window_size)
                  => ~e.limited
            /\ e.limited => /\ IsSuffix(e.after, e.before)
                            /\ Len(e.after) = calls_per_minute

\* C35's case: a client was rejected twice in a row, and its next check,
\* more than windowSize after its oldest recorded request, was admitted.
C35_Witness ==
    \E c \in DOMAIN checkLog :
        LET log == checkLog[c]
            n == Len(log)
        IN  /\ n >= 3
            /\ log[n - 2].limited
            /\ log[n - 1].limited
            /\ log[n].before # <<>>
            /\ log[n].at > log[n].before[1] + window_size
            /\ ~log[n].limited

\* No call is between its first step and its return or raise.
Quiescent == \A r \in Reqs : pc[r] \in {"idle", "done"}

\* The three request counters of the metrics.
Counters(m) ==
    <<m.totalRequests, m.successfulTranslations, m.failedTranslations>>

\* C36: in every state where each call made has completed, totalRequests =
\* successfulTranslations + failedTranslations; a call that ended as a cache
\* hit or as a same-language shortcut has changed none of the three
\* counters.
C36_TotalEqualsOutcomes ==
    /\ Quiescent =>
         metrics.totalRequests
            = metrics.successfulTranslations + metrics.failedTranslations
    /\ \A r \in Reqs :
         (Latest(r) /\ Done(r) /\ out[r].kind \in {"hit", "same"}) =>
            Counters(metrics) = Counters(loc[r].metrics0)

\* C36's case: an earlier call has been counted, and the call after it ended
\* on a cache hit or on the same-language shortcut.
C36_Witness ==
    /\ Quiescent
    /\ metrics.totalRequests >= 1
    /\ \E r \in Reqs :
         /\ Latest(r) /\ Done(r)
         /\ out[r].kind \in {"hit", "same"}
         /\ loc[r].metrics0.totalRequests >= 1

\* A get of the cache takes place.
GetStep == nops' = nops + 1 /\ lastOp'.op = "get"

\* C37: a cache hit sets the entry's last-access time, the one eviction
\* orders by, to the time of the hit and leaves its creation timestamp as it
\* was; a get of an entry whose age since creation has reached the TTL
\* returns absent and removes it, however recently it was last hit.
C37_ExpiryFromCreation ==
    [][GetStep =>
        LET key == lastOp'.key IN
        /\ lastOp'.result # None =>
             /\ cache'[key].timestamp = cache[key].timestamp
             /\ lastOp'.result.timestamp = cache[key].timestamp
             /\ AccessTime(access_times', key) = now
        /\ (key \in DOMAIN cache /\ now - cache[key].timestamp >= ttl) =>
             /\ lastOp'.result = None
             /\ key \notin DOMAIN cache']_vars

\* C37's case: an entry was hit when it was younger than the TTL, and the
\* get that followed, less than the TTL after that hit and the TTL after the
\* entry's creation, returned absent and removed it.
C37_Witness ==
    /\ lastOp.op = "get" /\ prevOp.op = "get"
    /\ lastOp.key = prevOp.key
    /\ prevOp.result # None
    /\ lastOp.at - prevOp.at < ttl
    /\ lastOp.at - prevOp.result.timestamp >= ttl
    /\ lastOp.result = None
    /\ lastOp.size = prevOp.size - 1

\* The keys of the entries whose age has reached the TTL.
ExpiredKeys == {k \in DOMAIN cache : ~IsFresh(cache[k])}

\* The entry stored under key by the latest set of the log before its last
\* operation: what the cache held for key when that operation began.
EntryBefore(key) ==
    LET sets == {j \in 1..(Len(opLog) - 1) :
                    opLog[j].op = "set" /\ opLog[j].key = key}
        last == CHOOSE j \in sets : \A i \in sets : i <= j
    IN  opLog[last].entry

\* C38: an entry whose TTL has elapsed stays in the map, and in totalEntries,
\* through every step but a get of its key and a set that evicts it; a set
\* tests its capacity on the number of all entries, expired ones included,
\* and evicts by last access alone, so that a still valid entry can go while
\* an expired one is kept.
C38_ExpiredOccupyCapacity ==
    [][/\ \A k \in ExpiredKeys :
            \/ k \in DOMAIN cache'
            \/ GetStep /\ lastOp'.key = k
            \/ SetStep /\ k \in lastOp'.evicted
       /\ (~GetStep /\ ~SetStep) => totalEntries' = totalEntries
       /\ SetStep =>
            /\ (totalEntries >= max_size /\ totalEntries > 0)
                  => lastOp'.evicted # {}
            /\ lastOp'.evicted \subseteq
                 LruKeys(access_times, num_to_remove(totalEntries))]_vars

\* C38's case: a set found the cache at capacity with an expired entry in it,
\* evicted an entry that was still valid, and left the expired one in place.
C38_Witness ==
    /\ lastOp.op = "set"
    /\ lastOp.at = now
    /\ \E k \in lastOp.evicted :
         lastOp.at - EntryBefore(k).timestamp < ttl
    /\ \E k \in ExpiredKeys : k # lastOp.key
    /\ totalEntries = max_size

\* C39: a set of a key that is already present, made while the cache holds
\* max_size entries or more, evicts the batch of least recently accessed
\* entries before it overwrites: the cache is left with as many entries fewer
\* as were evicted under other keys, at least one fewer unless the key itself
\* made up the batch, and with the key stored anew.
C39_OverwriteEvicts ==
    [][(SetStep /\ lastOp'.key \in DOMAIN cache /\ totalEntries >= max_size)
          => LET key == lastOp'.key
                 removed == lastOp'.evicted
             IN  /\ removed = LruKeys(access_times, num_to_remove(totalEntries))
                 /\ removed # {}
                 /\ DOMAIN cache' = (DOMAIN cache \ removed) \cup {key}
                 /\ totalEntries'
                       = totalEntries - Cardinality(removed \ {key})
                 /\ removed # {key} => totalEntries' < totalEntries
                 /\ cache'[key] = lastOp'.entry]_vars

\* C39's case: a full cache of valid entries, a set of a key it held, and a
\* cache left with fewer than max_size - 1 entries: two entries under other
\* keys were evicted for an overwrite.
C39_Witness ==
    /\ lastOp.op = "set"
    /\ max_size > 0
    /\ prevOp.size = max_size
    /\ lastOp.key \notin lastOp.evicted
    /\ Cardinality(lastOp.evicted) >= 2
    /\ lastOp.size < max_size - 1
    /\ lastOp.at < ttl

\* The keys a last-access map holds.
KeysOf(at) == {at[i].key : i \in 1..Len(at)}

\* C40: in every reachable state the entry map and the last-access map have
\* the same keys, each once: get with its lazy expiry, set with its eviction
\* and cleanup all keep the two maps in step.
C40_MapsInStep ==
    /\ DOMAIN cache = KeysOf(access_times)
    /\ Len(access_times) = Cardinality(DOMAIN cache)

\* C40's case: a set evicted from a full cache, cleanup emptied it and a set
\* stored one entry in it again.
C40_Witness ==
    /\ max_size > 0
    /\ Len(opLog) >= 3
    /\ opLog[Len(opLog) - 2].op = "set"
    /\ opLog[Len(opLog) - 2].evicted # {}
    /\ prevOp.op = "cleanup"
    /\ prevOp.size = 0
    /\ lastOp.op = "set"
    /\ totalEntries = 1
    /\ Len(access_times) = 1

====
